---- MODULE Spec2Model ----
(***************************************************************************)
(* A model of update_notifications.py: update_app_tsx reads App.tsx into   *)
(* one string, applies six text transformations in a fixed order, writes   *)
(* the string back, and the script prints a completion message.            *)
(*                                                                         *)
(* Text is a sequence of tokens.  Every token stands for one fixed piece   *)
(* of text, so a token sequence stands for the string obtained by          *)
(* concatenating the pieces:                                               *)
(*   "NL"   the newline character                                          *)
(*   "SP"   one space                                                      *)
(*   "RB"   the character }                                                *)
(*   "x"    a character that occurs in none of the script's literals       *)
(*   "Anc"  import { DeletedPost } from "./types";                         *)
(*   "ImpU" import { useNotifications }                                    *)
(*   "ImpV"  from "./hooks/useNotifications";       (leading space)        *)
(*   "D1a"  const [notificationScheduled, setNotificationScheduled]        *)
(*   "D1b"   = useState(false);                     (leading space)        *)
(*   "D2"   const [notificationStatus, setNotificationStatus] =            *)
(*          useState<'unknown' | 'granted' | 'denied' | 'unsupported'>     *)
(*          ('unknown');                                                   *)
(*   "HkA"  const {\n    notification,\n ... \n    clearNotification       *)
(*          (lines 27-35 of the script after the two leading spaces)       *)
(*   "HkB"   = useNotifications();                  (leading space)        *)
(*   "F1"   const showNotification = (message: string) => {                *)
(*   "F2"   const requestNotificationPermission = async () => {            *)
(*   "F3"   const scheduleNotification = (title: string,                   *)
(*          options?: NotificationOptions) => {                            *)
(* The script's literals are sequences of these tokens, and no literal     *)
(* occurs in a concatenation of the pieces other than at the token         *)
(* boundaries where its token sequence occurs, so searching the token      *)
(* sequence finds what Python finds in the string.  Indices are Python's:  *)
(* 0-based, -1 for "not found".                                            *)
(***************************************************************************)
EXTENDS Integers, Sequences, FiniteSets, TLC

VARIABLES
    file,      \* the content of App.tsx on disk
    content,   \* the local variable content of update_app_tsx
    pc,        \* the position of the script
    k,         \* the index of the for loop over functions_to_remove
    stdout,    \* the lines printed so far
    failed,    \* which I/O call raised: "none", "read" or "write"
    hist,      \* record: content after the read and after each later step
    wrote,     \* the write-back of lines 60-61 has completed
    others,    \* how many writes another process has made
    conflict,  \* another process wrote between the read and the write-back
    lastWriter \* who wrote the file last: "none", "script" or "other"

vars == <<file, content, pc, k, stdout, failed, hist, wrote, others, conflict, lastWriter>>

-----------------------------------------------------------------------------
(* The literals of the script. *)

ImportCheck == <<"ImpU">>

Anchor == <<"Anc">>

ImportLine == <<"ImpU", "ImpV">>

AnchorReplacement == Anchor \o <<"NL">> \o ImportLine

ScheduledDecl == <<"D1a", "D1b">>

StatusDecl == <<"D2">>

HookTarget == <<"SP", "SP">> \o ScheduledDecl

replace_text == <<"SP", "SP", "HkA", "NL", "SP", "SP", "RB", "HkB">>

functions_to_remove == << <<"F1">>, <<"F2">>, <<"F3">> >>

ClosingMarker == <<"NL", "SP", "SP", "RB">>

SuccessMessage == "App.tsx updated successfully."

-----------------------------------------------------------------------------
(* Python's string operations. *)

\* s[a:b] for 0 <= a, b <= len(s)
Slice(s, a, b) == SubSeq(s, a + 1, b)

\* s[i:i+len(pat)] == pat
StartsAt(s, pat, i) ==
    /\ i >= 0
    /\ i + Len(pat) <= Len(s)
    /\ \A j \in 1..Len(pat) : s[i + j] = pat[j]

\* s.find(pat, start) for start >= 0
Find(s, pat, start) ==
    LET hits == {i \in start..(Len(s) - Len(pat)) : StartsAt(s, pat, i)}
    IN  IF hits = {} THEN -1
        ELSE CHOOSE i \in hits : \A j \in hits : i <= j

\* pat in s
Contains(s, pat) == Find(s, pat, 0) # -1

\* s.replace(old, new): every non-overlapping occurrence, left to right
RECURSIVE Replace(_, _, _)
Replace(s, old, new) ==
    LET i == Find(s, old, 0)
    IN  IF i = -1 THEN s
        ELSE Slice(s, 0, i) \o new \o Replace(Slice(s, i + Len(old), Len(s)), old, new)

\* re.sub with count=1: only the first match is deleted
KeptFirstOnly(s, pat, from) ==
    LET i == Find(s, pat, from)
    IN  IF i = -1 THEN [j \in 1..(Len(s) - from) |-> from + j]
        ELSE [j \in 1..(i - from) |-> from + j]
                 \o [j \in 1..(Len(s) - i - Len(pat)) |-> i + Len(pat) + j]

\* re.sub with the pattern anchored by ^: only a match at the very start of
\* the text is deleted
KeptAnchored(s, pat, from) ==
    IF from = 0 /\ StartsAt(s, pat, 0)
    THEN [j \in 1..(Len(s) - Len(pat)) |-> Len(pat) + j]
    ELSE [j \in 1..(Len(s) - from) |-> from + j]

\* The 1-based positions of s that re.sub(pat, '', s) keeps, scanning from
\* the 0-based position from: the matches are the non-overlapping
\* occurrences found left to right in one pass.
RECURSIVE Kept(_, _, _)
Kept(s, pat, from) ==
    LET i == Find(s, pat, from)
    IN  IF i = -1 THEN [j \in 1..(Len(s) - from) |-> from + j]
        ELSE [j \in 1..(i - from) |-> from + j] \o Kept(s, pat, i + Len(pat))

\* re.sub(pat, '', s) for a pattern that matches one literal
ReSub(s, pat) ==
    LET keep == Kept(s, pat, 0)
    IN  [j \in 1..Len(keep) |-> s[keep[j]]]

-----------------------------------------------------------------------------
(* The steps of update_app_tsx as functions of the text. *)

\* step 1 adding the import at the top when there is no anchor
InsertImportAlways(c) ==
    IF ~Contains(c, ImportCheck)
    THEN IF Contains(c, Anchor) THEN Replace(c, Anchor, AnchorReplacement)
         ELSE ImportLine \o <<"NL">> \o c
    ELSE c

\* step 1 without the test of line 8
InsertImportUnguarded(c) == Replace(c, Anchor, AnchorReplacement)

\* step 1 with replace(..., 1): only the first anchor gets the import
InsertImportFirstOnly(c) ==
    LET i == Find(c, Anchor, 0)
    IN  IF ~Contains(c, ImportCheck) /\ i # -1
        THEN Slice(c, 0, i) \o AnchorReplacement
                 \o Slice(c, i + Len(Anchor), Len(c))
        ELSE c

\* lines 8-12
InsertImport(c) ==
    IF ~Contains(c, ImportCheck) THEN Replace(c, Anchor, AnchorReplacement)
    ELSE c

\* lines 15-19
DeleteScheduled(c) == ReSub(c, ScheduledDecl)

\* lines 20-24
DeleteStatus(c) == ReSub(c, StatusDecl)

\* lines 39-42
InsertHook(c) == Replace(c, HookTarget, replace_text)

\* an iteration that cuts to the end of the text when no marker follows
ExciseOneToEnd(c, func) ==
    LET start == Find(c, func, 0)
    IN  IF start # -1
        THEN LET end == Find(c, ClosingMarker, start)
             IN  IF end # -1
                 THEN Slice(c, 0, start) \o Slice(c, end + 3, Len(c))
                 ELSE Slice(c, 0, start)
        ELSE c

\* lines 53-58: one iteration of the loop
ExciseOne(c, func) ==
    LET start == Find(c, func, 0)
    IN  IF start # -1
        THEN LET end == Find(c, ClosingMarker, start)
             IN  IF end # -1
                 THEN Slice(c, 0, start) \o Slice(c, end + 3, Len(c))
                 ELSE c
        ELSE c

\* lines 52-58: the whole loop
ExciseAll(c) ==
    ExciseOne(ExciseOne(ExciseOne(c, functions_to_remove[1]),
                        functions_to_remove[2]),
              functions_to_remove[3])

\* lines 8-58: what update_app_tsx makes of the text it read
Transform(c) ==
    ExciseAll(InsertHook(DeleteStatus(DeleteScheduled(InsertImport(c)))))

-----------------------------------------------------------------------------
(* The texts the file may hold when the script starts. *)

MaxFrags == 3

MaxConcFrags == 1

MaxOther == 1

\* Pieces of text that matter to the script; an input is a concatenation of
\* at most MaxFrags of them.
Fragments ==
    { Anchor, ImportLine, ImportCheck, ScheduledDecl, <<"D1a">>, <<"D1b">>,
      StatusDecl, <<"ImpV">>,
      <<"SP", "SP">>, <<"SP">>, <<"RB">>, ClosingMarker, <<"NL">>, <<"x">>,
      functions_to_remove[1], functions_to_remove[2], functions_to_remove[3] }

RECURSIVE Texts(_)
Texts(n) ==
    IF n = 0 THEN {<<>>}
    ELSE LET shorter == Texts(n - 1)
         IN  shorter \cup {t \o f : t \in shorter, f \in Fragments}

\* section 8, scenario A of the specification
ScenarioA == Anchor \o <<"NL">> \o ScheduledDecl \o <<"NL">>

\* section 8, scenario B: the function block, then unrelated trailing text
ScenarioB ==
    functions_to_remove[2] \o <<"NL", "SP", "SP", "x">> \o ClosingMarker
        \o <<"NL", "x">>

\* a flag declaration inside the indented flag declaration
NestedScheduled ==
    <<"SP", "SP", "D1a">> \o ScheduledDecl \o <<"D1b", "NL">>

\* a status declaration inside the indented flag declaration
NestedStatus == <<"SP", "SP", "D1a">> \o StatusDecl \o <<"D1b", "NL">>

\* the anchor once and the hook import line twice
TwoImports ==
    Anchor \o <<"NL">> \o ImportLine \o <<"NL">> \o ImportLine \o <<"NL">>

\* a whole function, then a signature with no closing marker after it
WholeThenPartial ==
    functions_to_remove[2] \o <<"x">> \o ClosingMarker \o <<"NL">>
        \o functions_to_remove[1] \o <<"NL", "x">>

Scenarios ==
    {ScenarioA, ScenarioB, NestedScheduled, NestedStatus, TwoImports,
     WholeThenPartial}

Inputs == Texts(MaxFrags) \cup Scenarios

ConcInputs == Texts(MaxConcFrags) \cup {ScenarioA, ScenarioB}

\* what another process may write into the file
OtherTexts == {<<"x">>, ScheduledDecl}

-----------------------------------------------------------------------------
(* The script as a state machine. *)

InitWith(texts) ==
    /\ file \in texts
    /\ content = <<>>
    /\ pc = "read"
    /\ k = 1
    /\ stdout = <<>>
    /\ failed = "none"
    /\ hist = <<>>
    /\ wrote = FALSE
    /\ others = 0
    /\ conflict = FALSE
    /\ lastWriter = "none"

Init == InitWith(Inputs)

InitConc == InitWith(ConcInputs)

\* one transformation step: content is reassigned and control moves on
Step(from, to, new) ==
    /\ pc = from
    /\ content' = new
    /\ hist' = Append(hist, new)
    /\ pc' = to
    /\ UNCHANGED <<file, k, stdout, failed, wrote, others, conflict, lastWriter>>

\* lines 4-5
Read ==
    /\ pc = "read"
    /\ content' = file
    /\ hist' = <<file>>
    /\ pc' = "import"
    /\ UNCHANGED <<file, k, stdout, failed, wrote, others, conflict, lastWriter>>

\* a read failure that is swallowed: the run goes on with an empty text
ReadFailSwallowed ==
    /\ pc = "read"
    /\ failed' = "read"
    /\ content' = <<>>
    /\ hist' = << <<>> >>
    /\ pc' = "import"
    /\ UNCHANGED <<file, k, stdout, wrote, others, conflict, lastWriter>>

\* lines 4-5: open or read raises, nothing catches it
ReadFail ==
    /\ pc = "read"
    /\ failed' = "read"
    /\ pc' = "crashed"
    /\ UNCHANGED <<file, content, k, stdout, hist, wrote, others, conflict, lastWriter>>

Import == Step("import", "sub1", InsertImport(content))

Sub1 == Step("sub1", "sub2", DeleteScheduled(content))

Sub2 == Step("sub2", "hook", DeleteStatus(content))

Hook == Step("hook", "excise", InsertHook(content))

\* lines 52-58: one iteration
Excise ==
    /\ pc = "excise"
    /\ content' = ExciseOne(content, functions_to_remove[k])
    /\ hist' = Append(hist, content')
    /\ IF k < Len(functions_to_remove)
       THEN k' = k + 1 /\ pc' = "excise"
       ELSE k' = k /\ pc' = "write"
    /\ UNCHANGED <<file, stdout, failed, wrote, others, conflict, lastWriter>>

\* a write-back that transforms what the file holds now, not what was read
WriteRereading ==
    /\ pc = "write"
    /\ file' = Transform(file)
    /\ wrote' = TRUE
    /\ lastWriter' = "script"
    /\ pc' = "print"
    /\ UNCHANGED <<content, k, stdout, failed, hist, others, conflict>>

\* lines 60-61
Write ==
    /\ pc = "write"
    /\ file' = content
    /\ wrote' = TRUE
    /\ lastWriter' = "script"
    /\ pc' = "print"
    /\ UNCHANGED <<content, k, stdout, failed, hist, others, conflict>>

\* lines 60-61: open raises (the file is as it was) or the write raises after
\* open(..., 'w') has truncated the file
WriteFail ==
    /\ pc = "write"
    /\ \/ UNCHANGED <<file, lastWriter>>
       \/ file' = <<>> /\ lastWriter' = "script"
    /\ failed' = "write"
    /\ pc' = "crashed"
    /\ UNCHANGED <<content, k, stdout, hist, wrote, others, conflict>>

\* line 64
PrintDone ==
    /\ pc = "print"
    /\ stdout' = Append(stdout, SuccessMessage)
    /\ pc' = "done"
    /\ UNCHANGED <<file, content, k, failed, hist, wrote, others, conflict, lastWriter>>

\* another process overwrites the file; nothing in the script excludes it
OtherWrite ==
    /\ others < MaxOther
    /\ pc \notin {"done", "crashed"}
    /\ \E t \in OtherTexts : file' = t
    /\ others' = others + 1
    /\ conflict' = (conflict \/ (pc \notin {"read", "print"}))
    /\ lastWriter' = "other"
    /\ UNCHANGED <<content, pc, k, stdout, failed, hist, wrote>>

Script ==
    \/ Read
    \/ ReadFail
    \/ Import
    \/ Sub1
    \/ Sub2
    \/ Hook
    \/ Excise
    \/ Write
    \/ WriteFail
    \/ PrintDone

Next == Script

NextConc == Script \/ OtherWrite

Spec == Init /\ [][Next]_vars

SpecConc == InitConc /\ [][NextConc]_vars

-----------------------------------------------------------------------------
(* Vocabulary of the properties. *)

\* the 0-based positions at which pat occurs in s
Occurrences(s, pat) == {i \in 0..(Len(s) - Len(pat)) : StartsAt(s, pat, i)}

Count(s, pat) == Cardinality(Occurrences(s, pat))

\* the content after the read, and after steps 1 to 4
Ran(n) == Len(hist) >= n

AfterRead == hist[1]

AfterImport == hist[2]

AfterScheduled == hist[3]

AfterStatus == hist[4]

AfterHook == hist[5]

\* the content before and after the iteration of the loop for signature j
BeforeExcise(j) == hist[4 + j]

AfterExcise(j) == hist[5 + j]

Signatures == 1..Len(functions_to_remove)

\* none of the patterns the script recognises occurs in t
NoPatterns(t) ==
    /\ ~Contains(t, Anchor)
    /\ ~Contains(t, ScheduledDecl)
    /\ ~Contains(t, StatusDecl)
    /\ \A j \in Signatures : ~Contains(t, functions_to_remove[j])

\* the occurrence of pat at position i of the output of a deletion is made
\* of characters that were adjacent in its input; origin[p] is the input
\* position of the output's p-th character
Adjacent(origin, pat, i) ==
    \A j \in 1..(Len(pat) - 1) : origin[i + j + 1] = origin[i + j] + 1

-----------------------------------------------------------------------------
(* C1: no-op safety.  When the text read contains none of the recognised   *)
(* patterns, no step changes it and the text written back is the text      *)
(* read, character for character.                                          *)
C1_NoOpSafety ==
    (Ran(1) /\ NoPatterns(AfterRead)) =>
        /\ \A n \in 1..Len(hist) : hist[n] = AfterRead
        /\ wrote => file = AfterRead

C1_Witness ==
    /\ wrote
    /\ NoPatterns(AfterRead)
    /\ Contains(AfterRead, ClosingMarker)
    /\ Contains(AfterRead, <<"D1a">>)
    /\ file = AfterRead

(* C2: excision bounds as claimed.  When the signature and a later closing *)
(* marker are found, the iteration removes everything from the first       *)
(* character of the signature through the } of the marker, and keeps the   *)
(* rest unchanged and in order.                                            *)
C2_ExcisionBounds ==
    \A j \in Signatures :
        Ran(5 + j) =>
            LET before == BeforeExcise(j)
                start  == Find(before, functions_to_remove[j], 0)
                end    == Find(before, ClosingMarker, start)
            IN  (start # -1 /\ end # -1) =>
                    AfterExcise(j) =
                        Slice(before, 0, start)
                            \o Slice(before, end + Len(ClosingMarker), Len(before))

(* C3 as claimed: after step 2 the text contains no occurrence of the flag *)
(* declaration, wherever the occurrences of the input were.                *)
C3_NoOccurrenceLeft == Ran(3) => ~Contains(AfterScheduled, ScheduledDecl)

(* C3 amended: step 2 removes every occurrence of the flag declaration     *)
(* that the input contains: the output is the input less N declarations,   *)
(* and an occurrence in the output is never made of characters that were   *)
(* adjacent in the input (it was joined by a deletion between them).       *)
C3_DeletionCompleteness ==
    Ran(3) =>
        LET origin == Kept(AfterImport, ScheduledDecl, 0)
        IN  /\ Len(AfterScheduled) = Len(origin)
            /\ \A p \in 1..Len(origin) : AfterScheduled[p] = AfterImport[origin[p]]
            /\ Len(AfterScheduled) =
                   Len(AfterImport)
                       - Count(AfterImport, ScheduledDecl) * Len(ScheduledDecl)
            /\ \A i \in Occurrences(AfterScheduled, ScheduledDecl) :
                   ~Adjacent(origin, ScheduledDecl, i)

C3_Witness ==
    /\ Ran(3)
    /\ Count(AfterImport, ScheduledDecl) = 1
    /\ Len(AfterImport) > Len(ScheduledDecl)
    /\ ~Contains(AfterScheduled, ScheduledDecl)

(* C4 as claimed: with the anchor exactly once in the input, a second      *)
(* application of step 1 changes nothing and the result never contains two *)
(* copies of the hook import line.                                         *)
C4_NeverTwoCopies ==
    (Ran(2) /\ Count(AfterRead, Anchor) = 1) =>
        /\ InsertImport(AfterImport) = AfterImport
        /\ Count(AfterImport, ImportLine) < 2

(* C4 amended: with the anchor exactly once in the input, a second         *)
(* application of step 1 changes nothing, and the result contains two or   *)
(* more copies of the hook import line only if the input already held      *)
(* that many.                                                              *)
C4_ImportIdempotent ==
    (Ran(2) /\ Count(AfterRead, Anchor) = 1) =>
        /\ InsertImport(AfterImport) = AfterImport
        /\ \/ Count(AfterImport, ImportLine) < 2
           \/ Count(AfterImport, ImportLine) = Count(AfterRead, ImportLine)

C4_Witness ==
    /\ Ran(2)
    /\ Count(AfterRead, Anchor) = 1
    /\ ~Contains(AfterRead, ImportCheck)
    /\ Count(AfterImport, ImportLine) = 1
    /\ AfterImport # AfterRead

(* C5: scenario A as claimed.  For the DeletedPost import line followed by *)
(* the flag declaration line, the text written back has the hook import    *)
(* line right after the DeletedPost import and the destructuring block in  *)
(* place of the declaration.                                               *)
C5_ScenarioA ==
    (Ran(1) /\ AfterRead = ScenarioA /\ wrote) =>
        file = AnchorReplacement \o <<"NL">> \o replace_text \o <<"NL">>

(* C6 as claimed: after steps 2 and 3 the indented flag declaration occurs *)
(* nowhere, so step 4 leaves the text unchanged.                           *)
C6_HookNeverInserted ==
    Ran(5) =>
        /\ ~Contains(AfterStatus, HookTarget)
        /\ AfterHook = AfterStatus

(* C6 amended: after steps 2 and 3 an occurrence of the indented flag      *)
(* declaration is never made of characters that were adjacent before step  *)
(* 2, so step 4 replaces only a declaration that the deletions of steps 2  *)
(* and 3 joined, and leaves the text unchanged when there is none.         *)
C6_HookOnlyOnJoined ==
    Ran(5) =>
        LET first  == Kept(AfterImport, ScheduledDecl, 0)
            second == Kept(AfterScheduled, StatusDecl, 0)
            origin == [p \in 1..Len(second) |-> first[second[p]]]
        IN  /\ Len(AfterScheduled) = Len(first)
            /\ Len(AfterStatus) = Len(second)
            /\ \A p \in 1..Len(origin) : AfterStatus[p] = AfterImport[origin[p]]
            /\ \A i \in Occurrences(AfterStatus, HookTarget) :
                   ~Adjacent(origin, HookTarget, i)
            /\ Occurrences(AfterStatus, HookTarget) = {} => AfterHook = AfterStatus

C6_Witness ==
    /\ Ran(5)
    /\ Contains(AfterImport, HookTarget)
    /\ ~Contains(AfterStatus, HookTarget)
    /\ AfterHook = AfterStatus
    /\ AfterStatus # AfterImport

(* C7: partial-match tolerance.  An iteration whose signature does not     *)
(* occur, or occurs with no closing marker from its first occurrence on,   *)
(* leaves the text unchanged; nothing is raised, and the loop goes on to   *)
(* the remaining signatures, so the write-back is reached only after all   *)
(* three iterations.                                                       *)
C7_PartialMatchTolerated ==
    /\ \A j \in Signatures :
           Ran(5 + j) =>
               LET before == BeforeExcise(j)
                   start  == Find(before, functions_to_remove[j], 0)
               IN  (start = -1 \/ Find(before, ClosingMarker, start) = -1) =>
                       AfterExcise(j) = before
    /\ pc = "excise" => (failed = "none" /\ Len(hist) = 4 + k)
    /\ pc \in {"write", "print", "done"} => Ran(5 + Len(functions_to_remove))

C7_Witness ==
    /\ pc = "write"
    /\ Contains(BeforeExcise(1), functions_to_remove[1])
    /\ Contains(BeforeExcise(1), ClosingMarker)
    /\ Find(BeforeExcise(1), ClosingMarker,
            Find(BeforeExcise(1), functions_to_remove[1], 0)) = -1
    /\ AfterExcise(1) = BeforeExcise(1)
    /\ Contains(BeforeExcise(2), functions_to_remove[2])
    /\ AfterExcise(2) # BeforeExcise(2)

(* C8: lost update.  When another process wrote the file after the read    *)
(* and before the write-back, the file after the write-back is exactly the *)
(* transformation of the text that was read, and the run goes on to the    *)
(* completion message with nothing raised.                                 *)
C8_LostUpdate ==
    (wrote /\ conflict /\ lastWriter = "script") =>
        /\ file = Transform(AfterRead)
        /\ failed = "none"
        /\ pc \in {"print", "done"}

C8_Witness ==
    /\ pc = "done"
    /\ wrote
    /\ conflict
    /\ lastWriter = "script"
    /\ AfterRead = ScenarioA
    /\ file = Transform(ScenarioA)
    /\ stdout = <<SuccessMessage>>

(* C9: an I/O failure aborts the run.  The completion message is printed   *)
(* only after the write-back has completed; once the read has failed the   *)
(* file is never written and nothing is printed; once the write has failed *)
(* nothing is printed.                                                     *)
C9_AbortOnIOFailure ==
    /\ stdout # <<>> => (wrote /\ failed = "none")
    /\ failed = "read" => (~wrote /\ lastWriter # "script" /\ stdout = <<>>)
    /\ failed = "write" => (~wrote /\ stdout = <<>>)
    /\ failed # "none" => pc = "crashed"

C9_Witness ==
    /\ failed = "write"
    /\ pc = "crashed"
    /\ AfterRead # <<>>
    /\ file = <<>>
    /\ stdout = <<>>

(* C10 as claimed: when the input lacks the whole hook import line and has *)
(* the anchor, step 1 puts the hook import line on a new line right after  *)
(* the anchor; when the anchor is absent, step 1 changes nothing.          *)
C10_InsertUnlessLinePresent ==
    Ran(2) =>
        /\ (~Contains(AfterRead, ImportLine) /\ Contains(AfterRead, Anchor)) =>
               Contains(AfterImport, AnchorReplacement)
        /\ ~Contains(AfterRead, Anchor) => AfterImport = AfterRead

(* C10 amended: when the input lacks the text "import { useNotifications }"*)
(* and has the anchor, step 1 puts the hook import line on a new line      *)
(* right after every occurrence of the anchor and changes nothing else;    *)
(* when the anchor is absent or that text is present, step 1 changes       *)
(* nothing.                                                                *)
C10_ConditionalInsertion ==
    Ran(2) =>
        /\ (~Contains(AfterRead, ImportCheck) /\ Contains(AfterRead, Anchor)) =>
               /\ Count(AfterImport, Anchor) = Count(AfterRead, Anchor)
               /\ \A i \in Occurrences(AfterImport, Anchor) :
                      StartsAt(AfterImport, AnchorReplacement, i)
               /\ Count(AfterImport, ImportLine) = Count(AfterRead, Anchor)
               /\ ReSub(AfterImport, <<"NL">> \o ImportLine) = AfterRead
        /\ (~Contains(AfterRead, Anchor) \/ Contains(AfterRead, ImportCheck)) =>
               AfterImport = AfterRead

C10_Witness ==
    /\ Ran(2)
    /\ ~Contains(AfterRead, ImportCheck)
    /\ Count(AfterRead, Anchor) = 2
    /\ Count(AfterImport, AnchorReplacement) = 2

====
